---- MODULE Spec2Model ----
(***************************************************************************)
(* The grammar engine of the ub compiler front end, in its three           *)
(* generations:                                                            *)
(*   "ub_parser"  src/ub_parser/src/parser.rs  (nested functions, no end)  *)
(*   "parser"     src/parser/src/parser.rs     (unary, if/while, end())    *)
(*   "src"        src/src/parser.rs            (let, NodeIds, salsa)       *)
(* Every grammar rule is an operator from (generation, token stream,       *)
(* parser state) to a parse result.  The combinators are chumsky's         *)
(* (ordered choice, then, repeated, separated_by, foldl/foldr,             *)
(* map_with_span), without recovery strategies, as in the sources.         *)
(***************************************************************************)
EXTENDS Integers, Sequences, FiniteSets, TLC

GenUb == "ub_parser"
GenParser == "parser"
GenSalsa == "src"
Gens == {GenUb, GenParser, GenSalsa}

\* Only the salsa generation's nodes carry a NodeId (ParserState).
HasIds(g) == g = GenSalsa
\* The oldest generation has no prefix operators, no if/while and no Expr spans.
HasUnary(g) == g # GenUb
\* file_parser ends with end() in two generations.
HasEnd(g) == g # GenUb

Max(a, b) == IF a >= b THEN a ELSE b

\* A node without an id field / without a span field.
NoId == -1
NoSpan == <<-1, -1>>
\* Default::default() of Range<usize>, and the 0..0 of the oldest BinOp.
DefaultSpan == <<0, 0>>

(***************************************************************************)
(* Tokens.  The lexer is external: a stream is a sequence of               *)
(* [k: kind, v: lexeme (a sequence of characters), s, e: byte span].       *)
(***************************************************************************)
Peek(t, pos) == IF pos <= Len(t) THEN t[pos].k ELSE "EOI"

\* lexer.source().len(): the stream's eoi span is len..len+1.
SrcLen(t) == IF t = <<>> THEN 0 ELSE t[Len(t)].e

\* The span of the token at (1-based) index pos, or the eoi span.
TokSpan(t, pos) ==
  IF pos <= Len(t) THEN <<t[pos].s, t[pos].e>> ELSE <<SrcLen(t), SrcLen(t) + 1>>

\* chumsky Stream::span_since: start of the first token at the saved offset to
\* the end of the last token consumed.
span_since(t, start, cur) ==
  <<TokSpan(t, start)[1], TokSpan(t, Max(cur - 1, start))[2]>>

(***************************************************************************)
(* Parser state and results.  A rule runs from a state s: the cursor pos   *)
(* into the token stream, the id counter nid (it lives in a Cell, so a     *)
(* failed alternative keeps what it allocated), and far, the furthest      *)
(* failing token index seen so far (chumsky merges errors and alternatives *)
(* by their position; 0: none).  A result is the state after the rule,     *)
(* with its output val and how it ended: ok, or failed (ok's negation),    *)
(* which a panic is too.                                                   *)
(***************************************************************************)
St(pos, nid, far) == [pos |-> pos, nid |-> nid, far |-> far]
Ok(val, s) ==
  [ok |-> TRUE, failed |-> FALSE, panic |-> FALSE, val |-> val,
   pos |-> s.pos, nid |-> s.nid, far |-> s.far]
Err(s) ==
  [ok |-> FALSE, failed |-> TRUE, panic |-> FALSE, val |-> <<>>,
   pos |-> s.pos, nid |-> s.nid, far |-> Max(s.far, s.pos)]
Panicked(s) ==
  [ok |-> FALSE, failed |-> TRUE, panic |-> TRUE, val |-> <<>>,
   pos |-> s.pos, nid |-> s.nid, far |-> s.far]
\* the state after one more token
Skip(s) == St(s.pos + 1, s.nid, s.far)
\* the stream rewound to pos after the attempt r
BackReset(pos, r) == St(pos, 0, r.far)
Back(pos, r) == St(pos, r.nid, r.far)

(***************************************************************************)
(* Syntax nodes: one record shape for every node of the tree.              *)
(*   kind  Expr | Ty | Stmt | ElsePart | NameTyPair | Item | List          *)
(*   tag   the variant; op  the operator kind; name  an identifier or the  *)
(*   string literal's text; num  the integer literal's digits;             *)
(*   span  the node's span; ospan  the span of the variant's own record    *)
(*   (Literal, UnaryOp, BinOp); id  the NodeId.                            *)
(* A List node groups a Vec or an Option field and is no node of the AST.  *)
(* ext is no field of the program's nodes: it records the range of source  *)
(* text the rule that returned the node consumed, for the nodes that have  *)
(* a span.                                                                 *)
(***************************************************************************)
Node(kind, tag, op, name, num, kids, span, ospan, id, ext) ==
  [kind |-> kind, tag |-> tag, op |-> op, name |-> name, num |-> num,
   kids |-> kids, span |-> span, ospan |-> ospan, id |-> id, ext |-> ext]

Group(tag, kids, ext) ==
  Node("List", tag, "", <<>>, <<>>, kids, NoSpan, NoSpan, NoId, ext)
TyNode(tag, name, kids, span) ==
  Node("Ty", tag, "", name, <<>>, kids, span, NoSpan, NoId, span)
StmtNode(tag, name, kids, span, ext) ==
  Node("Stmt", tag, "", name, <<>>, kids, span, NoSpan, NoId, ext)

\* ParserState::next_id: hands out the counter's value and increments it.
next_id_stuck(n) == [id |-> n, next |-> n]
next_id(n) == [id |-> n, next |-> n + 1]

\* `id: state.next_id()` in the salsa generation, no id field in the others.
IdForDescending(g, nid) ==
  IF HasIds(g) THEN [id |-> 0 - next_id(nid).next - 1, next |-> next_id(nid).next]
  ELSE [id |-> NoId, next |-> nid]
IdFor(g, nid) == IF HasIds(g) THEN next_id(nid) ELSE [id |-> NoId, next |-> nid]

\* The output of a successful r replaced by a node that takes the next id.
WithNode(g, r, node) ==
  [r EXCEPT !.val = [node EXCEPT !.id = IdFor(g, r.nid).id],
            !.nid = IdFor(g, r.nid).next]

\* An Expr of the generation: the oldest generation's Expr has no span.
WithExpr(g, r, tag, op, name, num, kids, span, ospan, ext) ==
  WithNode(g, r, Node("Expr", tag, op, name, num, kids,
                      IF g = GenUb THEN NoSpan ELSE span, ospan, NoId, ext))

(***************************************************************************)
(* Combinators.  The rules the grammar recurses through, and those that    *)
(* are repeated, are named by a string that Rule resolves.  A rule written *)
(* a.then(b).then(c) runs b from a's result and c from b's and fails with  *)
(* the first that failed; a.or(b) runs b from where a started.             *)
(***************************************************************************)
RECURSIVE Rule(_, _, _, _)

\* just(k)
just(k, t, s) == IF Peek(t, s.pos) = k THEN Ok(<<>>, Skip(s)) ELSE Err(s)

\* a.or_not(), a an attempt from s: Some(output) or None, a's error kept as
\* alternative
or_not(a, s) ==
  CASE a.ok -> [a EXCEPT !.val = <<a.val>>]
    [] a.panic -> a
    [] OTHER -> Ok(<<>>, Back(s.pos, a))

RECURSIVE RepP(_, _, _, _)
\* p.repeated(), r holding the outputs so far
RepStep(p, g, t, r, b) ==
  CASE b.ok -> RepP(p, g, t, [b EXCEPT !.val = Append(r.val, b.val)])
    [] b.panic -> b
    [] OTHER -> Ok(r.val, Back(r.pos, b))
RepP(p, g, t, r) == RepStep(p, g, t, r, Rule(p, g, t, r))
repeated(p, g, t, s) == RepP(p, g, t, Ok(<<>>, s))

RECURSIVE SepTail(_, _, _, _, _)
\* p.separated_by(`,`), with allow_trailing() or without: after the last
\* item the stream is where that item ended, plus a `,` if trailing.
SepItemFront(p, trailing, g, t, r, b) ==
  CASE b.ok -> SepTail(p, trailing, g, t, [b EXCEPT !.val = <<b.val>> \o r.val])
    [] b.panic -> b
    [] OTHER -> Ok(r.val, Back(IF trailing THEN r.pos + 1 ELSE r.pos, b))
SepItem(p, trailing, g, t, r, b) ==
  CASE b.ok -> SepTail(p, trailing, g, t, [b EXCEPT !.val = Append(r.val, b.val)])
    [] b.panic -> b
    [] OTHER -> Ok(r.val, Back(IF trailing THEN r.pos + 1 ELSE r.pos, b))
SepTail(p, trailing, g, t, r) ==
  IF Peek(t, r.pos) = "Comma"
    THEN SepItem(p, trailing, g, t, r, Rule(p, g, t, Skip(r)))
    ELSE [r EXCEPT !.far = Max(@, r.pos)]
SepFirst(p, trailing, g, t, s, b) ==
  CASE b.ok -> SepTail(p, trailing, g, t, [b EXCEPT !.val = <<b.val>>])
    [] b.panic -> b
    [] OTHER -> Ok(<<>>, Back(s.pos, b))
separated_by(p, trailing, g, t, s) ==
  SepFirst(p, trailing, g, t, s, Rule(p, g, t, s))

(***************************************************************************)
(* Identifiers and types.                                                  *)
(***************************************************************************)
ident_parser(t, s) ==
  IF Peek(t, s.pos) = "Ident" THEN Ok(t[s.pos].v, Skip(s)) ELSE Err(s)

U64Name == <<"u", "6", "4">>

\* The filter_map of ty_parser: any identifier is a Name in the salsa
\* generation, only u64 (a variant of its own) in the older ones.
primitive(g, t, s) ==
  IF Peek(t, s.pos) = "Ident" /\ g = GenSalsa
    THEN Ok(TyNode("Name", t[s.pos].v, <<>>, TokSpan(t, s.pos)), Skip(s))
  ELSE IF Peek(t, s.pos) = "Ident" /\ t[s.pos].v = U64Name
    THEN Ok(TyNode("U64", <<>>, <<>>, TokSpan(t, s.pos)), Skip(s))
  ELSE Err(s)

\* just(Ptr).ignore_then(ty).map_with_span(..)
ptr_map(t, s, r) ==
  CASE r.failed -> r
    [] OTHER -> [r EXCEPT !.val = TyNode("Ptr", <<>>, <<r.val>>,
                                         span_since(t, s.pos, r.pos))]
ptr(g, t, s) ==
  IF Peek(t, s.pos) = "Ptr" THEN ptr_map(t, s, Rule("ty", g, t, Skip(s)))
  ELSE Err(s)

\* ident.map_with_span(Name)
name_ty_map(t, s, r) ==
  CASE r.failed -> r
    [] OTHER -> [r EXCEPT !.val = TyNode("Name", r.val, <<>>,
                                         span_since(t, s.pos, r.pos))]
name_ty(t, s) == name_ty_map(t, s, ident_parser(t, s))

\* primitive.or(ptr).or(name); the oldest generation has the primitive alone
ty_choice(g, t, s, a) ==
  LET p == ptr(g, t, Back(s.pos, a))
      n == name_ty(t, Back(s.pos, p))
  IN  CASE a.ok -> a
        [] p.ok -> p
        [] OTHER -> n
ty_parser(g, t, s) ==
  IF g = GenUb THEN primitive(g, t, s) ELSE ty_choice(g, t, s, primitive(g, t, s))

(***************************************************************************)
(* Literals.                                                               *)
(***************************************************************************)
RECURSIVE StripZeros(_)
StripZeros(v) ==
  IF Len(v) > 1 /\ v[1] = "0" THEN StripZeros(Tail(v)) ELSE v

Digit(c) ==
  CASE c = "0" -> 0 [] c = "1" -> 1 [] c = "2" -> 2 [] c = "3" -> 3 [] c = "4" -> 4
    [] c = "5" -> 5 [] c = "6" -> 6 [] c = "7" -> 7 [] c = "8" -> 8 [] c = "9" -> 9

\* u64::MAX = 18446744073709551615
U64MaxDigits ==
  <<"1","8","4","4","6","7","4","4","0","7","3","7","0","9","5","5","1","6","1","5">>

RECURSIVE DigitsLeq(_, _)
\* a <= b for digit sequences of the same length
DigitsLeq(a, b) ==
  IF a = <<>> THEN TRUE
  ELSE IF Digit(a[1]) < Digit(b[1]) THEN TRUE
  ELSE IF Digit(a[1]) > Digit(b[1]) THEN FALSE
  ELSE DigitsLeq(Tail(a), Tail(b))

\* str::parse::<u64>: the value (its canonical digits), or Err on overflow.
parse_u64_by_length(d) ==
  [ok |-> Len(d) <= Len(U64MaxDigits), val |-> d]
parse_u64_at(d) ==
  [ok |-> Len(d) < Len(U64MaxDigits)
           \/ (Len(d) = Len(U64MaxDigits) /\ DigitsLeq(d, U64MaxDigits)),
   val |-> d]
parse_u64(v) == parse_u64_at(StripZeros(v))

\* str[1..str.len() - 2]: the byte range [1, n-2), a panic when n < 3.
string_trim(v) ==
  [ok |-> Len(v) >= 3, val |-> SubSeq(v, 2, Len(v) - 2)]

literal(g, t, s) ==
  IF Peek(t, s.pos) = "String" THEN
    IF ~string_trim(t[s.pos].v).ok THEN Panicked(s)
    ELSE WithExpr(g, Ok(<<>>, Skip(s)), "String", "",
                  string_trim(t[s.pos].v).val, <<>>, <<>>,
                  TokSpan(t, s.pos), TokSpan(t, s.pos), TokSpan(t, s.pos))
  ELSE IF Peek(t, s.pos) = "Integer" THEN
    \* the salsa generation's token already holds the number
    IF g # GenSalsa /\ ~parse_u64(t[s.pos].v).ok THEN Panicked(s)
    ELSE WithExpr(g, Ok(<<>>, Skip(s)), "Integer", "", <<>>,
                  parse_u64(t[s.pos].v).val, <<>>, TokSpan(t, s.pos),
                  TokSpan(t, s.pos), TokSpan(t, s.pos))
  ELSE Err(s)

(***************************************************************************)
(* Expressions: atom, call, unary, product, sum, compare.                  *)
(***************************************************************************)
\* expr.separated_by(`,`).allow_trailing().or_not().unwrap_or_default()
expr_list(g, t, s) == separated_by("expr", TRUE, g, t, s)

\* a.then_ignore(just(k)), r being the result of a
then_ignore(k, t, r) ==
  CASE r.failed -> r
    [] Peek(t, r.pos) = k -> [r EXCEPT !.pos = @ + 1]
    [] OTHER -> Err(r)

\* expr_list.delimited_by(`[`, `]`).map_with_span(..)
array_map(g, t, s, r) ==
  CASE r.failed -> r
    [] OTHER -> WithExpr(g, r, "Array", "", <<>>, <<>>, r.val,
                         span_since(t, s.pos, r.pos), NoSpan,
                         span_since(t, s.pos, r.pos))
array(g, t, s) ==
  IF Peek(t, s.pos) = "BracketO"
    THEN array_map(g, t, s, then_ignore("BracketC", t, expr_list(g, t, Skip(s))))
    ELSE Err(s)

\* expr.delimited_by(`(`, `)`): the expression itself, its span unchanged
paren_map(t, s, r) ==
  CASE r.failed -> r
    [] Peek(t, r.pos) = "ParenC" ->
         [r EXCEPT !.pos = @ + 1, !.val.ext = span_since(t, s.pos, r.pos + 1)]
    [] OTHER -> Err(r)
paren_expr(g, t, s) ==
  IF Peek(t, s.pos) = "ParenO" THEN paren_map(t, s, Rule("expr", g, t, Skip(s)))
  ELSE Err(s)

\* ident.map_with_span(..)
name_expr(g, t, s) ==
  IF Peek(t, s.pos) = "Ident"
    THEN WithExpr(g, Ok(<<>>, Skip(s)), "Name", "", t[s.pos].v, <<>>, <<>>,
                  TokSpan(t, s.pos), NoSpan, TokSpan(t, s.pos))
    ELSE Err(s)

\* literal.or(name).or(array).or(`(` expr `)`)
atom(g, t, s) ==
  LET l == literal(g, t, s)
      n == name_expr(g, t, Back(s.pos, l))
      a == array(g, t, Back(s.pos, n))
      p == paren_expr(g, t, Back(s.pos, a))
  IN  CASE l.ok -> l
        [] l.panic -> l
        [] n.ok -> n
        [] a.ok -> a
        [] a.panic -> a
        [] OTHER -> p

\* expr_list.delimited_by(`(`, `)`)
args_map(t, s, r) ==
  CASE r.failed -> r
    [] OTHER -> [r EXCEPT !.val = Group("args", r.val, span_since(t, s.pos, r.pos))]
args(g, t, s) ==
  IF Peek(t, s.pos) = "ParenO"
    THEN args_map(t, s, then_ignore("ParenC", t, expr_list(g, t, Skip(s))))
    ELSE Err(s)

\* The span of a call: callee start to the last argument's end, or the
\* callee's own end without arguments.
call_span_callee(callee, as) == <<callee.span[1], callee.span[2]>>
call_span(callee, as) ==
  <<callee.span[1], IF as = <<>> THEN callee.span[2] ELSE as[Len(as)].span[2]>>

RECURSIVE FoldCalls(_, _, _, _)
\* .foldl(|callee, args| Call {..}) over the argument lists from i on, r
\* holding the callee
FoldCalls(g, lists, i, r) ==
  IF i > Len(lists) THEN r
  ELSE FoldCalls(g, lists, i + 1,
         WithExpr(g, r, "Call", "", <<>>, <<>>, <<r.val>> \o lists[i].kids,
                  call_span(r.val, lists[i].kids), NoSpan,
                  <<r.val.ext[1], lists[i].ext[2]>>))

\* atom.then(args.repeated()).foldl(..)
call_fold(g, callee, lists) ==
  CASE lists.failed -> lists
    [] OTHER -> FoldCalls(g, lists.val, 1, [lists EXCEPT !.val = callee])
call_map(g, t, a) ==
  CASE a.failed -> a
    [] OTHER -> call_fold(g, a.val, RepP("args", g, t, [a EXCEPT !.val = <<>>]))
call(g, t, s) == call_map(g, t, atom(g, t, s))

UnaryOpKind(k) ==
  CASE k = "Minus" -> "Neg" [] k = "Bang" -> "Not"
    [] k = "Ampersand" -> "AddrOf" [] k = "Asterisk" -> "Deref"
UnaryToks == {"Minus", "Bang", "Ampersand", "Asterisk"}

RECURSIVE UnaryOps(_, _, _)
\* choice((..)).repeated(): the prefix operators from pos on
UnaryOps(t, pos, acc) ==
  IF Peek(t, pos) \in UnaryToks
    THEN UnaryOps(t, pos + 1,
                  Append(acc, [kind |-> UnaryOpKind(t[pos].k), at |-> pos]))
    ELSE [val |-> acc, pos |-> pos]

\* UnaryOp { expr: rhs, kind, span: rhs.span }, the Expr's span the same
with_unary(g, t, r, op) ==
  WithExpr(g, r, "UnaryOp", op.kind, <<>>, <<>>, <<r.val>>, r.val.span,
           r.val.span, <<TokSpan(t, op.at)[1], r.val.ext[2]>>)

RECURSIVE FoldUnaryLeft(_, _, _, _, _)
FoldUnaryLeft(g, t, ops, i, r) ==
  IF i > Len(ops) THEN r
  ELSE FoldUnaryLeft(g, t, ops, i + 1, with_unary(g, t, r, ops[i]))
fold_unary_left(g, t, ops, r) == FoldUnaryLeft(g, t, ops, 1, r)

RECURSIVE FoldUnary(_, _, _, _, _)
\* .foldr(|kind, rhs| UnaryOp {..}): the last-written operator is applied
\* first.
FoldUnary(g, t, ops, i, r) ==
  IF i = 0 THEN r
  ELSE FoldUnary(g, t, ops, i - 1, with_unary(g, t, r, ops[i]))
fold_unary(g, t, ops, r) == FoldUnary(g, t, ops, Len(ops), r)

\* op.repeated().then(call).foldr(..): the operators end at ops.pos, where
\* the repetition's last attempt failed
unary_map(g, t, ops, c) ==
  CASE c.failed -> c
    [] OTHER -> fold_unary(g, t, ops.val, c)
unary_at(g, t, s, ops) ==
  unary_map(g, t, ops, call(g, t, St(ops.pos, s.nid, Max(s.far, ops.pos))))
\* the oldest generation has no unary level: its product is over calls
unary_op(g, t, s) ==
  IF HasUnary(g) THEN unary_at(g, t, s, UnaryOps(t, s.pos, <<>>))
  ELSE call(g, t, s)

\* The binary levels, tightest first: 1 product, 2 sum, 3 compare.
ProductOps == {"Asterisk", "Slash"}
SumOps == {"Plus", "Minus"}
CompareOps == {"EqEq", "BangEq"}
LevelOpsSwapped(level) ==
  CASE level = 1 -> SumOps [] level = 2 -> ProductOps [] level = 3 -> CompareOps
LevelOps(level) ==
  CASE level = 1 -> ProductOps [] level = 2 -> SumOps [] level = 3 -> CompareOps
BinOpKind(k) ==
  CASE k = "Asterisk" -> "Mul" [] k = "Slash" -> "Div" [] k = "Plus" -> "Add"
    [] k = "Minus" -> "Sub" [] k = "EqEq" -> "Eq" [] k = "BangEq" -> "Neq"

\* BinOp { kind, lhs, rhs, span }: lhs.span.start..rhs.span.end, on the BinOp
\* and on the Expr; the oldest generation writes 0..0 on the BinOp.
bin_span(a, b) == <<a.span[1], b.span[2]>>
with_bin(g, r, kind, b) ==
  WithExpr(g, r, "BinOp", kind, <<>>, <<>>, <<r.val, b>>, bin_span(r.val, b),
           IF g = GenUb THEN DefaultSpan ELSE bin_span(r.val, b),
           <<r.val.ext[1], b.ext[2]>>)

RECURSIVE FoldBin(_, _, _, _)
\* .foldl(|a, (kind, b)| BinOp {..}) over the (op, operand) pairs from i on, r
\* holding the left operand
FoldBin(g, rest, i, r) ==
  IF i > Len(rest) THEN r
  ELSE FoldBin(g, rest, i + 1, with_bin(g, r, rest[i][1], rest[i][2]))

\* operand.then(op.then(operand).repeated()).foldl(..), a being the first
\* operand's result and pair the level's op.then(operand)
bin_fold(g, a, rest) ==
  CASE rest.failed -> rest
    [] OTHER -> FoldBin(g, rest.val, 1, [rest EXCEPT !.val = a])
bin_map(pair, g, t, a) ==
  CASE a.failed -> a
    [] OTHER -> bin_fold(g, a.val, RepP(pair, g, t, [a EXCEPT !.val = <<>>]))

\* just(..).to(kind).or(just(..).to(kind)).then(operand): the pair of the
\* operator kind and the operand
pair_map(t, s, b) ==
  CASE b.failed -> b
    [] OTHER -> [b EXCEPT !.val = <<BinOpKind(t[s.pos].k), b.val>>]

\* product, sum, compare
product_pair(g, t, s) ==
  IF Peek(t, s.pos) \in LevelOps(1) THEN pair_map(t, s, unary_op(g, t, Skip(s)))
  ELSE Err(s)
product(g, t, s) == bin_map("product_pair", g, t, unary_op(g, t, s))
sum_pair(g, t, s) ==
  IF Peek(t, s.pos) \in LevelOps(2) THEN pair_map(t, s, product(g, t, Skip(s)))
  ELSE Err(s)
sum(g, t, s) == bin_map("sum_pair", g, t, product(g, t, s))
compare_pair(g, t, s) ==
  IF Peek(t, s.pos) \in LevelOps(3) THEN pair_map(t, s, sum(g, t, Skip(s)))
  ELSE Err(s)
expr_parser(g, t, s) == bin_map("compare_pair", g, t, sum(g, t, s))

(***************************************************************************)
(* Statements.                                                             *)
(***************************************************************************)
\* stmt.repeated().delimited_by(`{`, `}`)
block_parser(g, t, s) ==
  IF Peek(t, s.pos) = "BraceO"
    THEN then_ignore("BraceC", t, repeated("stmt", g, t, Skip(s)))
    ELSE Err(s)

\* `=` expr, `:` ty, `->` ty, and the three with or_not()
eq_expr(g, t, s) ==
  IF Peek(t, s.pos) = "Eq" THEN Rule("expr", g, t, Skip(s)) ELSE Err(s)
colon_ty(g, t, s) ==
  IF Peek(t, s.pos) = "Colon" THEN ty_parser(g, t, Skip(s)) ELSE Err(s)
arrow_ty(g, t, s) ==
  IF Peek(t, s.pos) = "Arrow" THEN ty_parser(g, t, Skip(s)) ELSE Err(s)
eq_expr_opt(g, t, s) == or_not(eq_expr(g, t, s), s)
colon_ty_required(g, t, s) ==
  [colon_ty(g, t, s) EXCEPT !.val = <<@>>]
colon_ty_opt(g, t, s) == or_not(colon_ty(g, t, s), s)
ret_ty(g, t, s) == or_not(arrow_ty(g, t, s), s)

\* The `;` that ends a statement: in the oldest generation it follows the
\* choice of the statements, in the others it is part of each of them.
semi_of(g, t, r) == IF g = GenUb THEN Ok(<<>>, r) ELSE just("Semi", t, r)

\* let name (: ty)? (= expr)? ;        (salsa generation)
var_decl_let(g, t, s) ==
  LET kw == just("Let", t, s)
      name == ident_parser(t, kw)
      ty == colon_ty_opt(g, t, name)
      rhs == eq_expr_opt(g, t, ty)
      sc == just("Semi", t, rhs)
  IN  CASE kw.failed -> kw
        [] name.failed -> name
        [] ty.failed -> ty
        [] rhs.failed -> rhs
        [] sc.failed -> sc
        [] OTHER ->
             [sc EXCEPT !.val =
                StmtNode("VarDecl", name.val,
                         <<Group("ty", ty.val, NoSpan), Group("rhs", rhs.val, NoSpan)>>,
                         DefaultSpan, span_since(t, s.pos, sc.pos))]

\* ty name = expr        (the two older generations; rhs: Some(rhs))
var_decl_ty(g, t, s) ==
  LET ty == ty_parser(g, t, s)
      name == ident_parser(t, ty)
      rhs == eq_expr(g, t, name)
      sc == semi_of(g, t, rhs)
  IN  CASE ty.failed -> ty
        [] name.failed -> name
        [] rhs.failed -> rhs
        [] sc.failed -> sc
        [] OTHER ->
             [sc EXCEPT !.val =
                StmtNode("VarDecl", name.val,
                         <<Group("ty", <<ty.val>>, NoSpan),
                           Group("rhs", <<rhs.val>>, NoSpan)>>,
                         DefaultSpan, span_since(t, s.pos, sc.pos))]
var_decl(g, t, s) ==
  IF g = GenSalsa THEN var_decl_let(g, t, s) ELSE var_decl_ty(g, t, s)

\* expr = expr
assignment(g, t, s) ==
  LET place == Rule("expr", g, t, s)
      rhs == eq_expr(g, t, place)
      sc == semi_of(g, t, rhs)
  IN  CASE place.failed -> place
        [] rhs.failed -> rhs
        [] sc.failed -> sc
        [] OTHER ->
             [sc EXCEPT !.val =
                StmtNode("Assignment", <<>>, <<place.val, rhs.val>>, DefaultSpan,
                         span_since(t, s.pos, sc.pos))]

\* a statement that is an expression or an item has no span of its own
expr_stmt(g, t, s) ==
  LET e == Rule("expr", g, t, s)
      sc == semi_of(g, t, e)
  IN  CASE e.failed -> e
        [] sc.failed -> sc
        [] OTHER -> [sc EXCEPT !.val = StmtNode("Expr", <<>>, <<e.val>>, NoSpan, NoSpan)]
item_stmt_map(r) ==
  CASE r.failed -> r
    [] OTHER -> [r EXCEPT !.val = StmtNode("Item", <<>>, <<r.val>>, NoSpan, NoSpan)]
item_stmt(g, t, s) == item_stmt_map(Rule("item", g, t, s))

\* while expr block
while_loop(g, t, s) ==
  LET c == Rule("expr", g, t, Skip(s))
      b == Rule("block", g, t, c)
  IN  CASE Peek(t, s.pos) # "While" -> Err(s)
        [] c.failed -> c
        [] b.failed -> b
        [] OTHER ->
             [b EXCEPT !.val =
                StmtNode("WhileStmt", <<>>, <<c.val, Group("body", b.val, NoSpan)>>,
                         span_since(t, s.pos, b.pos), span_since(t, s.pos, b.pos))]

\* if_stmt.map(ElseIf).or(block.map_with_span(Else)), after `else`
else_body_block(g, t, s) ==
  LET b == Rule("block", g, t, s)
  IN  CASE b.failed -> b
        [] OTHER ->
             [b EXCEPT !.val = Node("ElsePart", "Else", "", <<>>, <<>>, b.val,
                                    span_since(t, s.pos, b.pos), NoSpan, NoId,
                                    span_since(t, s.pos, b.pos))]
else_body(g, t, s) ==
  LET i == Rule("if_stmt", g, t, s)
      b == Rule("block", g, t, Back(s.pos, i))
  IN  CASE i.ok -> [i EXCEPT !.val = Node("ElsePart", "ElseIf", "", <<>>, <<>>,
                                          <<i.val>>, NoSpan, NoSpan, NoId, NoSpan)]
        [] i.panic -> i
        [] b.failed -> b
        [] OTHER ->
             [b EXCEPT !.val = Node("ElsePart", "Else", "", <<>>, <<>>, b.val,
                                    span_since(t, s.pos, b.pos), NoSpan, NoId,
                                    span_since(t, s.pos, b.pos))]
else_branch(g, t, s) ==
  IF Peek(t, s.pos) = "Else" THEN else_body(g, t, Skip(s)) ELSE Err(s)
else_part(g, t, s) == or_not(else_branch(g, t, s), s)

\* if expr block (else ..)?
if_stmt(g, t, s) ==
  LET c == Rule("expr", g, t, Skip(s))
      b == Rule("block", g, t, c)
      e == else_part(g, t, b)
  IN  CASE Peek(t, s.pos) # "If" -> Err(s)
        [] c.failed -> c
        [] b.failed -> b
        [] e.failed -> e
        [] OTHER ->
             [e EXCEPT !.val =
                StmtNode("IfStmt", <<>>,
                         <<c.val, Group("body", b.val, NoSpan),
                           Group("else_part", e.val, NoSpan)>>,
                         span_since(t, s.pos, e.pos), span_since(t, s.pos, e.pos))]

\* The statement of the oldest generation:
\* var_decl.or(assignment).or(expr).or(item).then_ignore(`;`)
stmt_choice(g, t, s) ==
  LET v == Rule("var_decl", g, t, s)
      a == Rule("assignment", g, t, Back(s.pos, v))
      e == Rule("expr_stmt", g, t, Back(s.pos, a))
      i == item_stmt(g, t, Back(s.pos, e))
  IN  CASE v.ok -> v
        [] v.panic -> v
        [] a.ok -> a
        [] a.panic -> a
        [] e.ok -> e
        [] e.panic -> e
        [] OTHER -> i
statement_ub(g, t, s) == then_ignore("Semi", t, stmt_choice(g, t, s))

\* var_decl.or(assignment).or(expr `;`).or(if_stmt).or(while_loop)
statement_parser(g, t, s) ==
  LET v == Rule("var_decl", g, t, s)
      a == Rule("assignment", g, t, Back(s.pos, v))
      e == Rule("expr_stmt", g, t, Back(s.pos, a))
      i == Rule("if_stmt", g, t, Back(s.pos, e))
      w == Rule("while_loop", g, t, Back(s.pos, i))
  IN  CASE g = GenUb -> statement_ub(g, t, s)
        [] v.ok -> v
        [] v.panic -> v
        [] a.ok -> a
        [] a.panic -> a
        [] e.ok -> e
        [] e.panic -> e
        [] i.ok -> i
        [] i.panic -> i
        [] OTHER -> w

(***************************************************************************)
(* Items.                                                                  *)
(***************************************************************************)
\* name `:` ty, with a NodeId in the salsa generation
name_ty_pair_parser(g, t, s) ==
  LET n == ident_parser(t, s)
      c == just("Colon", t, n)
      ty == ty_parser(g, t, c)
  IN  CASE n.failed -> n
        [] c.failed -> c
        [] ty.failed -> ty
        [] OTHER ->
             WithNode(g, ty, Node("NameTyPair", "", "", n.val, <<>>, <<ty.val>>,
                                  span_since(t, s.pos, ty.pos), NoSpan, NoId,
                                  span_since(t, s.pos, ty.pos)))

\* the parameters: separated_by(`,`).allow_trailing() in parentheses
params(g, t, s) ==
  IF Peek(t, s.pos) = "ParenO"
    THEN then_ignore("ParenC", t, separated_by("pair", TRUE, g, t, Skip(s)))
    ELSE Err(s)
\* the fields: separated_by(`,`) in braces
fields(g, t, s) ==
  IF Peek(t, s.pos) = "BraceO"
    THEN then_ignore("BraceC", t, separated_by("pair", FALSE, g, t, Skip(s)))
    ELSE Err(s)

\* struct name { fields }: span Default::default()
struct_parser(g, t, s) ==
  LET kw == just("Struct", t, s)
      n == ident_parser(t, kw)
      fs == fields(g, t, n)
  IN  CASE kw.failed -> kw
        [] n.failed -> n
        [] fs.failed -> fs
        [] OTHER ->
             WithNode(g, fs, Node("Item", "StructDecl", "", n.val, <<>>, fs.val,
                                  DefaultSpan, NoSpan, NoId,
                                  span_since(t, s.pos, fs.pos)))

\* fn name ( params ) (-> ty)? { body }; the oldest generation keeps the span
\* of `fn` alone
function_parser(g, t, s) ==
  LET kw == just("Fn", t, s)
      n == ident_parser(t, kw)
      ps == params(g, t, n)
      ret == ret_ty(g, t, ps)
      body == Rule("block", g, t, ret)
  IN  CASE kw.failed -> kw
        [] n.failed -> n
        [] ps.failed -> ps
        [] ret.failed -> ret
        [] body.failed -> body
        [] OTHER ->
             WithNode(g, body, Node("Item", "FnDecl", "", n.val, <<>>,
                                    <<Group("params", ps.val, NoSpan),
                                      Group("ret_ty", ret.val, NoSpan),
                                      Group("body", body.val, NoSpan)>>,
                                    IF g = GenUb THEN TokSpan(t, s.pos)
                                    ELSE span_since(t, s.pos, body.pos),
                                    NoSpan, NoId, span_since(t, s.pos, body.pos)))

\* function.or(struct)
item_parser(g, t, s) ==
  LET f == function_parser(g, t, s)
      st == struct_parser(g, t, Back(s.pos, f))
  IN  CASE f.ok -> f
        [] f.panic -> f
        [] OTHER -> st

\* The rules the grammar recurses through and those that are repeated.
Rule(p, g, t, s) ==
  CASE p = "expr" -> expr_parser(g, t, s)
    [] p = "args" -> args(g, t, s)
    [] p = "product_pair" -> product_pair(g, t, s)
    [] p = "sum_pair" -> sum_pair(g, t, s)
    [] p = "compare_pair" -> compare_pair(g, t, s)
    [] p = "stmt" -> statement_parser(g, t, s)
    [] p = "pair" -> name_ty_pair_parser(g, t, s)
    [] p = "item" -> item_parser(g, t, s)
    [] p = "ty" -> ty_parser(g, t, s)
    [] p = "block" -> block_parser(g, t, s)
    [] p = "if_stmt" -> if_stmt(g, t, s)
    [] p = "var_decl" -> var_decl(g, t, s)
    [] p = "assignment" -> assignment(g, t, s)
    [] p = "expr_stmt" -> expr_stmt(g, t, s)
    [] p = "while_loop" -> while_loop(g, t, s)

(***************************************************************************)
(* The file grammar and parse.                                             *)
(***************************************************************************)
\* A diagnostic: the failing span and the token found (none at end of input).
\* The set of expected tokens is not modelled.
Diag(t, at) ==
  [span |-> TokSpan(t, at), found |-> IF at <= Len(t) THEN <<t[at].k>> ELSE <<>>]

\* .then_ignore(end()).map(File {..}) and parse_recovery_verbose's result,
\* once item_parser().repeated() has stopped at pos with the items it built.
\* Without end() the rest of the stream is ignored and the alternative dropped.
file_end_unchecked(g, t, name, pos, its, far) ==
  [tree |-> <<[name |-> name, items |-> its]>>, diags |-> <<>>]
file_end(g, t, name, pos, its, far) ==
  IF HasEnd(g) /\ pos <= Len(t)
    THEN [tree |-> <<>>, diags |-> <<Diag(t, Max(far, pos))>>]
    ELSE [tree |-> <<[name |-> name, items |-> its]>>, diags |-> <<>>]

\* parse, run from a fresh ParserState to its end: the result of one call
\* that nothing interleaves with.
parse_result(g, t, name, r) ==
  IF r.panic THEN [tree |-> <<>>, diags |-> <<>>]
  ELSE file_end(g, t, name, r.pos, r.val, r.far)
parse(g, t, name) ==
  parse_result(g, t, name, repeated("item", g, t, St(1, next_id(0).id, 0)))

(***************************************************************************)
(* The external lexer's output for a list of [k, v] tokens: each token is  *)
(* as wide as its lexeme, one blank between two tokens.                    *)
(***************************************************************************)
RECURSIVE Layout(_, _, _)
Layout(toks, i, at) ==
  IF i > Len(toks) THEN <<>>
  ELSE <<[k |-> toks[i].k, v |-> toks[i].v, s |-> at, e |-> at + Len(toks[i].v)]>>
       \o Layout(toks, i + 1, at + Len(toks[i].v) + 1)

Tk(k, v) == [k |-> k, v |-> v]


fn == Tk("Fn", <<"f", "n">>)
struct == Tk("Struct", <<"s", "t", "r", "u", "c", "t">>)
kwIf == Tk("If", <<"i", "f">>)
kwElse == Tk("Else", <<"e", "l", "s", "e">>)
kwWhile == Tk("While", <<"w", "h", "i", "l", "e">>)
kwLet == Tk("Let", <<"l", "e", "t">>)
kwPtr == Tk("Ptr", <<"p", "t", "r">>)
Id(c) == Tk("Ident", <<c>>)
u64 == Tk("Ident", U64Name)
Num(c) == Tk("Integer", <<c>>)
plus == Tk("Plus", <<"+">>)
minus == Tk("Minus", <<"-">>)
star == Tk("Asterisk", <<"*">>)
slash == Tk("Slash", <<"/">>)
bang == Tk("Bang", <<"!">>)
amp == Tk("Ampersand", <<"&">>)
eqeq == Tk("EqEq", <<"=", "=">>)
bangeq == Tk("BangEq", <<"!", "=">>)
eq == Tk("Eq", <<"=">>)
comma == Tk("Comma", <<",">>)
colon == Tk("Colon", <<":">>)
semi == Tk("Semi", <<";">>)
arrow == Tk("Arrow", <<"-", ">">>)
po == Tk("ParenO", <<"(">>)
pc_ == Tk("ParenC", <<")">>)
bo == Tk("BraceO", <<"{">>)
bc == Tk("BraceC", <<"}">>)
ko == Tk("BracketO", <<"[">>)
kc == Tk("BracketC", <<"]">>)


(***************************************************************************)
(* Inputs.                                                                 *)
(***************************************************************************)
\* How many parse calls may be in progress at once.
NInv == 2
Invocations == 1..NInv
\* How many times a call is run on its input.
MaxRuns == 2
\* Pieces of source text per file.
MaxFrags == 2
\* Binary operators, prefix operators, argument lists and arguments per
\* expression.
MaxOps == 2
MaxPrefix == 2
MaxCalls == 2
MaxArgs == 2

RECURSIVE Concat(_, _)
Concat(ss, i) == IF i > Len(ss) THEN <<>> ELSE ss[i] \o Concat(ss, i + 1)

FnHead == <<fn, Id("f"), po, pc_, bo>>
\* fn f ( ) { a }            (the `;` is missing)
MissingSemiFrag == FnHead \o <<Id("a"), bc>>

\* Pieces of source text a file is made of: items, well-formed or not in one
\* generation or another, and stray tokens.
Frags ==
  << \* fn f ( ) { }
     FnHead \o <<bc>>,
     \* fn f ( a : u64 , ) -> ptr u64 { a ( b ) ; }
     <<fn, Id("f"), po, Id("a"), colon, u64, comma, pc_, arrow, kwPtr, u64, bo,
       Id("a"), po, Id("b"), pc_, semi, bc>>,
     MissingSemiFrag,
     \* struct X { y : u64 , x : u64 }
     <<struct, Id("X"), bo, Id("y"), colon, u64, comma, Id("x"), colon, u64, bc>>,
     \* ;
     <<semi>>,
     \* fn f ( ) { a = - ( b ) ; }
     FnHead \o <<Id("a"), eq, minus, po, Id("b"), pc_, semi, bc>>,
     \* fn f ( ) { if a { } else { while b { } } }
     FnHead \o <<kwIf, Id("a"), bo, bc, kwElse, bo, kwWhile, Id("b"), bo, bc, bc, bc>>,
     \* fn f ( ) { let x = [ 1 , ] ; }
     FnHead \o <<kwLet, Id("x"), eq, ko, Num("1"), comma, kc, semi, bc>> >>

\* The piece whose statement lacks its `;`, and the pieces that are one
\* well-formed item in every generation.
MissingSemi == CHOOSE i \in DOMAIN Frags : Frags[i] = MissingSemiFrag
WellFormed == {1, 4}

FileNames == {"uwu.ub"}

\* An expression's shape: see the families below.
NoShape ==
  [fam |-> "", form |-> "", ops |-> <<>>, pre |-> <<>>, pre2 |-> <<>>,
   lists |-> <<>>, trailing |-> FALSE]

\* The files: up to MaxFrags pieces, lexed.
FragSeqs == UNION {[1..n -> DOMAIN Frags] : n \in 0..MaxFrags}
FileOf(fs, name) ==
  [name |-> name, frags |-> fs, shape |-> NoShape,
   t |-> Layout(Concat([i \in DOMAIN fs |-> Frags[fs[i]]], 1), 1, 0)]
Files == {FileOf(fs, name) : fs \in FragSeqs, name \in FileNames}

\* The files of the calls that run interleaved.
ConcFrags == {<<2>>, <<MissingSemi>>, <<4, 6>>}
ConcFiles == {FileOf(fs, name) : fs \in ConcFrags, name \in FileNames}

(***************************************************************************)
(* Expression inputs, each the one statement of a function body:           *)
(*   ladder  operands of one form joined by binary operators;              *)
(*   prefix  prefix operators before an operand, then possibly a binary    *)
(*           operator and a second operand with prefix operators of its    *)
(*           own;                                                          *)
(*   calls   an atom followed by argument lists.                           *)
(***************************************************************************)
BinToks == {"Asterisk", "Slash", "Plus", "Minus", "EqEq", "BangEq"}
\* one binary operator of each level after a prefixed operand
TailToks == {"Asterisk", "Minus", "EqEq"}

TokOf(k) ==
  CASE k = "Asterisk" -> star [] k = "Slash" -> slash [] k = "Plus" -> plus
    [] k = "Minus" -> minus [] k = "EqEq" -> eqeq [] k = "BangEq" -> bangeq
    [] k = "Bang" -> bang [] k = "Ampersand" -> amp

Letters == <<"a", "b", "c", "d", "e", "f", "g", "h">>

\* The tokens of an operand named c.
OperandToks(form, c) ==
  CASE form = "name" -> <<Id(c)>>
    [] form = "int" -> <<Num(c)>>
    [] form = "unary" -> <<minus, Id(c)>>
    [] form = "call" -> <<Id(c), po, pc_>>
    [] form = "paren" -> <<po, Id(c), pc_>>

ToksOf(ks) == [i \in DOMAIN ks |-> TokOf(ks[i])]

\* a , b , .. with k names, and a trailing `,` if asked for
RECURSIVE ArgToks(_, _, _)
ArgToks(i, k, trailing) ==
  IF i > k THEN <<>>
  ELSE <<Id(Letters[i])>>
       \o (IF i < k \/ trailing THEN <<comma>> ELSE <<>>)
       \o ArgToks(i + 1, k, trailing)

LadderToks(sh) ==
  OperandToks(sh.form, Letters[1])
  \o Concat([i \in DOMAIN sh.ops |->
               <<TokOf(sh.ops[i])>> \o OperandToks(sh.form, Letters[i + 1])], 1)
PrefixToks(sh) ==
  ToksOf(sh.pre) \o OperandToks(sh.form, IF sh.form = "int" THEN "2" ELSE "a")
  \o Concat([i \in DOMAIN sh.ops |->
               <<TokOf(sh.ops[i])>> \o ToksOf(sh.pre2)
               \o OperandToks(sh.form, IF sh.form = "int" THEN "3" ELSE "b")], 1)
CallToks(sh) ==
  OperandToks(sh.form, "f")
  \o Concat([i \in DOMAIN sh.lists |->
               <<po>> \o ArgToks(1, sh.lists[i], sh.trailing) \o <<pc_>>], 1)

ExprToks(sh) ==
  CASE sh.fam = "ladder" -> LadderToks(sh)
    [] sh.fam = "prefix" -> PrefixToks(sh)
    [] sh.fam = "calls" -> CallToks(sh)

SeqsUpTo(S, n) == UNION {[1..k -> S] : k \in 0..n}

Ladders ==
  {[NoShape EXCEPT !.fam = "ladder", !.form = form, !.ops = ops] :
     form \in {"name", "unary", "call"}, ops \in SeqsUpTo(BinToks, MaxOps)}
Prefixes ==
  UNION {{[NoShape EXCEPT !.fam = "prefix", !.form = form, !.pre = pre,
                          !.ops = ops, !.pre2 = pre2] :
            form \in {"name", "int", "call"},
            ops \in SeqsUpTo(TailToks, 1),
            pre2 \in IF pre = <<>> THEN {pre} ELSE {<<>>, pre}} :
         pre \in SeqsUpTo(UnaryToks, MaxPrefix)}
Calls ==
  {[NoShape EXCEPT !.fam = "calls", !.form = form, !.lists = lists,
                   !.trailing = trailing] :
     form \in {"name", "paren"}, lists \in SeqsUpTo(0..MaxArgs, MaxCalls),
     trailing \in BOOLEAN}

Shapes == Ladders \cup Prefixes \cup Calls

\* fn f ( ) { E ; }
ExprFileOf(sh, name) ==
  [name |-> name, frags |-> <<>>, shape |-> sh,
   t |-> Layout(FnHead \o ExprToks(sh) \o <<semi, bc>>, 1, 0)]
ExprFiles == {ExprFileOf(sh, name) : sh \in Shapes, name \in FileNames}

(***************************************************************************)
(* Statement, item and literal inputs:                                     *)
(*   if      fn f ( ) { if a { } (else if b { })^n (else { })? }           *)
(*   let     fn f ( ) { let x (: u64)? (= 1)? ; }                          *)
(*   nested  fn f ( ) { fn g ( ) { } ;? (fn h ( ) { } | 1 + 5) ; }         *)
(*   struct  struct X { a : u64 , .. }            with n fields            *)
(*   int     fn f ( ) { <digits> ; }                                       *)
(*   str     fn f ( ) { "<n letters>" ; }                                  *)
(* n counts the else-ifs, the fields or the letters; p and q say which of  *)
(* the optional parts are written.                                         *)
(***************************************************************************)
\* else-if clauses per chain, fields per struct, letters per string literal
MaxElse == 2
MaxFields == 2
MaxStr == 2

StmtShape(fam, n, p, q, text) ==
  [fam |-> fam, n |-> n, p |-> p, q |-> q, text |-> text]

NumOf(ds) == Tk("Integer", ds)
Str(v) == Tk("String", v)

\* if c_k { } else if c_k+1 { } .. with n else-ifs in all, and a final else
\* block if asked for
RECURSIVE IfToks(_, _, _)
IfToks(k, n, final) ==
  <<kwIf, Id(Letters[k]), bo, bc>>
    \o (IF k <= n THEN <<kwElse>> \o IfToks(k + 1, n, final)
        ELSE IF final THEN <<kwElse, bo, bc>> ELSE <<>>)

LetToks(ty, init) ==
  <<kwLet, Id("x")>> \o (IF ty THEN <<colon, u64>> ELSE <<>>)
    \o (IF init THEN <<eq, Num("1")>> ELSE <<>>) \o <<semi>>

\* the bodies of the tests nested_function and nested_function2, as written
\* or with a `;` after each local function
NestedToks(expr, semis) ==
  <<fn, Id("g"), po, pc_, bo, bc>> \o (IF semis THEN <<semi>> ELSE <<>>)
    \o (IF expr THEN <<Num("1"), plus, Num("5"), semi>>
        ELSE <<fn, Id("h"), po, pc_, bo, bc>> \o (IF semis THEN <<semi>> ELSE <<>>))

RECURSIVE FieldToks(_, _)
FieldToks(i, n) ==
  IF i > n THEN <<>>
  ELSE <<Id(Letters[i]), colon, u64>> \o (IF i < n THEN <<comma>> ELSE <<>>)
       \o FieldToks(i + 1, n)

\* Digit sequences around u64::MAX = 18446744073709551615, and whether the
\* number fits a u64.
IntTexts ==
  { [text |-> <<"0">>, fits |-> TRUE],
    [text |-> <<"4", "2">>, fits |-> TRUE],
    [text |-> <<"0", "0", "7">>, fits |-> TRUE],
    [text |-> <<"1","8","4","4","6","7","4","4","0","7","3","7","0","9","5","5","1","6","1","4">>,
     fits |-> TRUE],
    [text |-> <<"1","8","4","4","6","7","4","4","0","7","3","7","0","9","5","5","1","6","1","5">>,
     fits |-> TRUE],
    [text |-> <<"0","1","8","4","4","6","7","4","4","0","7","3","7","0","9","5","5","1","6","1","5">>,
     fits |-> TRUE],
    [text |-> <<"0","9","9","9","9","9","9","9","9","9","9","9","9","9","9","9","9","9","9","9">>,
     fits |-> TRUE],
    [text |-> <<"1","8","4","4","6","7","4","4","0","7","3","7","0","9","5","5","1","6","1","6">>,
     fits |-> FALSE],
    [text |-> <<"1","8","4","4","6","7","4","4","0","7","3","7","0","9","5","5","2","0","0","0">>,
     fits |-> FALSE],
    [text |-> <<"2","0","0","0","0","0","0","0","0","0","0","0","0","0","0","0","0","0","0","0">>,
     fits |-> FALSE],
    [text |-> <<"1","0","0","0","0","0","0","0","0","0","0","0","0","0","0","0","0","0","0","0","0">>,
     fits |-> FALSE] }

\* A string token: the quotes and n letters between them.
StrText(n) == <<"\"">> \o SubSeq(Letters, 1, n) \o <<"\"">>

StmtShapes ==
  {StmtShape("if", n, final, FALSE, <<>>) : n \in 0..MaxElse, final \in BOOLEAN}
    \cup {StmtShape("let", 0, ty, init, <<>>) : ty \in BOOLEAN, init \in BOOLEAN}
    \cup {StmtShape("nested", 0, expr, semis, <<>>) : expr \in BOOLEAN, semis \in BOOLEAN}
    \cup {StmtShape("struct", n, FALSE, FALSE, <<>>) : n \in 0..MaxFields}
    \cup {StmtShape("int", 0, i.fits, FALSE, i.text) : i \in IntTexts}
    \cup {StmtShape("str", n, FALSE, FALSE, StrText(n)) : n \in 0..MaxStr}

StmtToks(sh) ==
  CASE sh.fam = "if" -> FnHead \o IfToks(1, sh.n, sh.p) \o <<bc>>
    [] sh.fam = "let" -> FnHead \o LetToks(sh.p, sh.q) \o <<bc>>
    [] sh.fam = "nested" -> FnHead \o NestedToks(sh.p, sh.q) \o <<bc>>
    [] sh.fam = "struct" ->
         <<struct, Id("X"), bo>> \o FieldToks(1, sh.n) \o <<bc>>
    [] sh.fam = "int" -> FnHead \o <<NumOf(sh.text), semi, bc>>
    [] sh.fam = "str" -> FnHead \o <<Str(sh.text), semi, bc>>

StmtFileOf(sh, name) ==
  [name |-> name, frags |-> <<>>, shape |-> sh, t |-> Layout(StmtToks(sh), 1, 0)]
StmtFiles == {StmtFileOf(sh, name) : sh \in StmtShapes, name \in FileNames}

(***************************************************************************)
(* The parse calls.  Each call i has the locals of parse (its ParserState, *)
(* the stream and its cursor, the items built so far, the furthest error)  *)
(* and its result: the returned tree and the diagnostics it pushed.  prev   *)
(* is the result of the call's run before, and alone (no state of the      *)
(* program) what parse returns for the call's file when nothing else runs. *)
(***************************************************************************)
VARIABLES pc, gen, src, pos, state, items, far, out, prev, runs, alone

vars == <<pc, gen, src, pos, state, items, far, out, prev, runs, alone>>

NoFile == [name |-> "", frags |-> <<>>, shape |-> NoShape, t |-> <<>>]
NoOut == [tree |-> <<>>, diags |-> <<>>]

\* `let state = ParserState::default();`: the ParserState a call allocates
\* from is its own local.
state_shared(i) == 1
state_of(i) == i

Init ==
  /\ pc = [i \in Invocations |-> "idle"]
  /\ gen = [i \in Invocations |-> GenSalsa]
  /\ src = [i \in Invocations |-> NoFile]
  /\ pos = [i \in Invocations |-> 1]
  /\ state = [i \in Invocations |-> next_id(0).id]
  /\ items = [i \in Invocations |-> <<>>]
  /\ far = [i \in Invocations |-> 0]
  /\ out = [i \in Invocations |-> NoOut]
  /\ prev = [i \in Invocations |-> NoOut]
  /\ runs = [i \in Invocations |-> 0]
  /\ alone = [i \in Invocations |-> NoOut]

\* A parse that goes on with the ParserState of the parse before it.
EnterStale(i) ==
  /\ pc' = [pc EXCEPT ![i] = "items"]
  /\ pos' = [pos EXCEPT ![i] = 1]
  /\ items' = [items EXCEPT ![i] = <<>>]
  /\ far' = [far EXCEPT ![i] = 0]
  /\ runs' = [runs EXCEPT ![i] = @ + 1]
  /\ UNCHANGED state

\* The entry of parse: a stream over the lexer's tokens and a default
\* ParserState.
Enter(i) ==
  /\ pc' = [pc EXCEPT ![i] = "items"]
  /\ pos' = [pos EXCEPT ![i] = 1]
  /\ state' = [state EXCEPT ![state_of(i)] = next_id(0).id]
  /\ items' = [items EXCEPT ![i] = <<>>]
  /\ far' = [far EXCEPT ![i] = 0]
  /\ runs' = [runs EXCEPT ![i] = @ + 1]

\* parse is called on a file.
Start(i, g, f) ==
  /\ pc[i] = "idle"
  /\ gen' = [gen EXCEPT ![i] = g]
  /\ src' = [src EXCEPT ![i] = f]
  /\ alone' = [alone EXCEPT ![i] = parse(g, f.t, f.name)]
  /\ Enter(i)
  /\ UNCHANGED <<out, prev>>

\* One iteration of item_parser(state).repeated(), r being what item_parser
\* returns from the call's cursor and counter.
ItemApply(i, r) ==
  /\ state' = [state EXCEPT ![state_of(i)] = r.nid]
  /\ far' = [far EXCEPT ![i] = r.far]
  /\ pc' = [pc EXCEPT ![i] = IF r.panic THEN "panicked"
                             ELSE IF r.ok THEN "items" ELSE "end"]
  /\ pos' = [pos EXCEPT ![i] = IF r.ok THEN r.pos ELSE @]
  /\ items' = [items EXCEPT ![i] = IF r.ok THEN Append(@, r.val) ELSE @]
ItemStep(i) ==
  /\ pc[i] = "items"
  /\ ItemApply(i, Rule("item", gen[i], src[i].t,
                       St(pos[i], state[state_of(i)], far[i])))
  /\ UNCHANGED <<gen, src, out, prev, runs, alone>>

\* The end of file_parser and of parse: the tree is returned, the errors are
\* pushed as diagnostics.
Finish(i) ==
  /\ pc[i] = "end"
  /\ out' = [out EXCEPT ![i] =
               file_end(gen[i], src[i].t, src[i].name, pos[i], items[i], far[i])]
  /\ pc' = [pc EXCEPT ![i] = "done"]
  /\ UNCHANGED <<gen, src, pos, state, items, far, prev, runs, alone>>

\* parse is called again on the same file.
Reparse(i) ==
  /\ pc[i] = "done"
  /\ runs[i] < MaxRuns
  /\ prev' = [prev EXCEPT ![i] = out[i]]
  /\ out' = [out EXCEPT ![i] = NoOut]
  /\ Enter(i)
  /\ UNCHANGED <<gen, src, alone>>

\* One call at a time, on the files, in every generation.
Next ==
  \/ \E g \in Gens, f \in Files : Start(1, g, f)
  \/ ItemStep(1)
  \/ Finish(1)
  \/ Reparse(1)

Spec == Init /\ [][Next]_vars

\* One call at a time, on the expressions.
NextExpr ==
  \/ \E g \in Gens, f \in ExprFiles : Start(1, g, f)
  \/ ItemStep(1)
  \/ Finish(1)

SpecExpr == Init /\ [][NextExpr]_vars

\* Calls of the generation that has a ParserState, interleaved step by step.
NextConc ==
  \E i \in Invocations :
    \/ \E f \in ConcFiles : Start(i, GenSalsa, f)
    \/ ItemStep(i)
    \/ Finish(i)

SpecConc == Init /\ [][NextConc]_vars

\* One call at a time, on the statements, items and literals.
NextStmt ==
  \/ \E g \in Gens, f \in StmtFiles : Start(1, g, f)
  \/ ItemStep(1)
  \/ Finish(1)

SpecStmt == Init /\ [][NextStmt]_vars

\* The call runs to its end without suspension: a step that can be taken is
\* taken.  ItemFair is the weak fairness of ItemStep(1), written out with the
\* condition under which the step is possible: ItemStep changes pc or items
\* whenever pc is "items".
ItemFair == []<>(pc[1] # "items") \/ []<><<ItemStep(1)>>_vars
SpecLive == Init /\ [][NextStmt]_vars /\ ItemFair /\ WF_vars(Finish(1))

(***************************************************************************)
(* Reading a result.                                                       *)
(***************************************************************************)
Done(i) == pc[i] = "done"
HasTree(o) == o.tree # <<>>
ItemsOf(o) == o.tree[1].items

RECURSIVE NodesOf(_)
RECURSIVE NodesIn(_, _)
\* The nodes of a subtree, the parent before its children.
NodesOf(n) == <<n>> \o NodesIn(n.kids, 1)
NodesIn(ns, i) ==
  IF i > Len(ns) THEN <<>> ELSE NodesOf(ns[i]) \o NodesIn(ns, i + 1)
TreeNodes(o) == IF HasTree(o) THEN NodesIn(ItemsOf(o), 1) ELSE <<>>

\* The expression of the one statement of the one function of a file.
BodyExpr(o) == ItemsOf(o)[1].kids[3].kids[1].kids[1]

RECURSIVE Shape(_)
\* A node without its spans and ids.
Shape(n) ==
  [tag |-> n.tag, op |-> n.op, name |-> n.name, num |-> n.num,
   kids |-> [i \in DOMAIN n.kids |-> Shape(n.kids[i])]]

(***************************************************************************)
(* The reference trees of the expression inputs.                           *)
(***************************************************************************)
Leaf(tag, name, num) ==
  [tag |-> tag, op |-> "", name |-> name, num |-> num, kids |-> <<>>]
Un(kind, x) ==
  [tag |-> "UnaryOp", op |-> kind, name |-> <<>>, num |-> <<>>, kids |-> <<x>>]
Bin(kind, a, b) ==
  [tag |-> "BinOp", op |-> kind, name |-> <<>>, num |-> <<>>, kids |-> <<a, b>>]
CallOf(f, as) ==
  [tag |-> "Call", op |-> "", name |-> <<>>, num |-> <<>>, kids |-> <<f>> \o as]

OperandRef(form, c) ==
  CASE form = "name" -> Leaf("Name", <<c>>, <<>>)
    [] form = "int" -> Leaf("Integer", <<>>, <<c>>)
    [] form = "unary" -> Un("Neg", Leaf("Name", <<c>>, <<>>))
    [] form = "call" -> CallOf(Leaf("Name", <<c>>, <<>>), <<>>)
    [] form = "paren" -> Leaf("Name", <<c>>, <<>>)

\* The ladder: {*, /} binds tightest, then {+, -}, then {==, !=}.
RefLevel(k) ==
  CASE k \in {"Asterisk", "Slash"} -> 1
    [] k \in {"Plus", "Minus"} -> 2
    [] k \in {"EqEq", "BangEq"} -> 3
RefKind(k) ==
  CASE k = "Asterisk" -> "Mul" [] k = "Slash" -> "Div" [] k = "Plus" -> "Add"
    [] k = "Minus" -> "Sub" [] k = "EqEq" -> "Eq" [] k = "BangEq" -> "Neq"
RefUnary(k) ==
  CASE k = "Minus" -> "Neg" [] k = "Bang" -> "Not"
    [] k = "Ampersand" -> "AddrOf" [] k = "Asterisk" -> "Deref"

\* Where a left-associative ladder splits operands lo..hi: at the last of
\* the loosest operators between them.
SplitAt(ops, lo, hi) ==
  CHOOSE k \in lo..(hi - 1) :
    /\ \A j \in lo..(hi - 1) : RefLevel(ops[j]) <= RefLevel(ops[k])
    /\ \A j \in (k + 1)..(hi - 1) : RefLevel(ops[j]) < RefLevel(ops[k])

RECURSIVE RefLadder(_, _, _, _)
RefLadder(form, ops, lo, hi) ==
  IF lo = hi THEN OperandRef(form, Letters[lo])
  ELSE Bin(RefKind(ops[SplitAt(ops, lo, hi)]),
           RefLadder(form, ops, lo, SplitAt(ops, lo, hi)),
           RefLadder(form, ops, SplitAt(ops, lo, hi) + 1, hi))

RECURSIVE RefPrefix(_, _, _)
\* The prefix operators from the i-th on around x, the first-written
\* outermost.
RefPrefix(pre, i, x) ==
  IF i > Len(pre) THEN x ELSE Un(RefUnary(pre[i]), RefPrefix(pre, i + 1, x))
RefPrefixed(sh) ==
  IF sh.ops = <<>>
    THEN RefPrefix(sh.pre, 1, OperandRef(sh.form, IF sh.form = "int" THEN "2" ELSE "a"))
    ELSE Bin(RefKind(sh.ops[1]),
             RefPrefix(sh.pre, 1,
                       OperandRef(sh.form, IF sh.form = "int" THEN "2" ELSE "a")),
             RefPrefix(sh.pre2, 1,
                       OperandRef(sh.form, IF sh.form = "int" THEN "3" ELSE "b")))

RECURSIVE RefCalls(_, _, _)
\* The argument lists from the i-th on applied to callee, one after another.
RefCalls(lists, i, callee) ==
  IF i > Len(lists) THEN callee
  ELSE RefCalls(lists, i + 1,
                CallOf(callee, [j \in 1..lists[i] |-> Leaf("Name", <<Letters[j]>>, <<>>)]))

RECURSIVE CallSpans(_)
\* Every Call down the callees spans callee start to last argument end, or to
\* the callee's end without arguments.
CallSpans(n) ==
  n.tag = "Call" =>
    /\ n.span = <<n.kids[1].span[1],
                  IF Len(n.kids) = 1 THEN n.kids[1].span[2]
                  ELSE n.kids[Len(n.kids)].span[2]>>
    /\ CallSpans(n.kids[1])

(***************************************************************************)
(* The claims.                                                             *)
(***************************************************************************)
\* C1: a flat sequence of operands joined by binary operators parses to the
\* tree of the reference ladder {*, /} > {+, -} > {==, !=}, every level
\* left-associative (operands with a prefix operator where the generation
\* has them).
C1_Precedence ==
  (Done(1) /\ src[1].shape.fam = "ladder"
     /\ (src[1].shape.form = "unary" => HasUnary(gen[1])))
    => /\ HasTree(out[1])
       /\ Len(ItemsOf(out[1])) = 1
       /\ Shape(BodyExpr(out[1]))
            = RefLadder(src[1].shape.form, src[1].shape.ops, 1,
                        Len(src[1].shape.ops) + 1)
\* a + b * c has been parsed to Add(a, Mul(b, c))
C1_Witness ==
  /\ Done(1) /\ gen[1] = GenSalsa
  /\ src[1].shape.fam = "ladder" /\ src[1].shape.form = "name"
  /\ src[1].shape.ops = <<"Plus", "Asterisk">>
  /\ HasTree(out[1])
  /\ BodyExpr(out[1]).op = "Add"
  /\ BodyExpr(out[1]).kids[2].op = "Mul"

\* C2: prefix operators bind tighter than every binary operator and looser
\* than call: k prefix operators before an operand are k nested UnaryOp
\* nodes, the first-written outermost, and a binary operator after them
\* joins the prefixed operands.
C2_UnaryBinding ==
  (Done(1) /\ src[1].shape.fam = "prefix" /\ HasUnary(gen[1]))
    => /\ HasTree(out[1])
       /\ Len(ItemsOf(out[1])) = 1
       /\ Shape(BodyExpr(out[1])) = RefPrefixed(src[1].shape)
\* two different prefix operators before each of two calls joined by `*`
C2_Witness ==
  /\ Done(1) /\ HasUnary(gen[1])
  /\ src[1].shape.fam = "prefix" /\ src[1].shape.form = "call"
  /\ Len(src[1].shape.pre) = 2 /\ src[1].shape.pre[1] # src[1].shape.pre[2]
  /\ src[1].shape.pre2 = src[1].shape.pre
  /\ src[1].shape.ops = <<"Asterisk">>
  /\ HasTree(out[1])
  /\ BodyExpr(out[1]).op = "Mul"
  /\ BodyExpr(out[1]).kids[1].kids[1].tag = "UnaryOp"
  /\ BodyExpr(out[1]).kids[2].kids[1].kids[1].tag = "Call"

\* C3: an atom followed by n argument lists parses to n left-nested Calls,
\* each spanning (where expressions have spans) from its callee's start to
\* its last argument's end, or to the callee's end without arguments.
C3_Calls ==
  (Done(1) /\ src[1].shape.fam = "calls")
    => /\ HasTree(out[1])
       /\ Len(ItemsOf(out[1])) = 1
       /\ Shape(BodyExpr(out[1]))
            = RefCalls(src[1].shape.lists, 1, OperandRef(src[1].shape.form, "f"))
       /\ gen[1] # GenUb => CallSpans(BodyExpr(out[1]))
\* f ( ) ( a , b ) has been parsed to Call(Call(f, []), [a, b])
C3_Witness ==
  /\ Done(1) /\ gen[1] = GenSalsa
  /\ src[1].shape.fam = "calls" /\ src[1].shape.lists = <<0, 2>>
  /\ HasTree(out[1])
  /\ BodyExpr(out[1]).tag = "Call" /\ Len(BodyExpr(out[1]).kids) = 3
  /\ BodyExpr(out[1]).kids[1].tag = "Call"
  /\ BodyExpr(out[1]).kids[1].span = BodyExpr(out[1]).kids[1].kids[1].span
  /\ BodyExpr(out[1]).span[2] = BodyExpr(out[1]).kids[3].span[2]

\* C4: parsing the same tokens under the same file name again returns the
\* same tree, node ids and diagnostics.
C4_Deterministic ==
  (Done(1) /\ runs[1] >= 2) => out[1] = prev[1]
\* a file of two items has been parsed twice, with node ids
C4_Witness ==
  /\ Done(1) /\ runs[1] = 2 /\ gen[1] = GenSalsa
  /\ HasTree(out[1]) /\ Len(ItemsOf(out[1])) = 2
  /\ HasTree(prev[1])

\* The nodes that carry a NodeId, and their ids.
IdCarrying(n) == n.kind \in {"Expr", "NameTyPair", "Item"}
IdsOf(o) ==
  [i \in DOMAIN SelectSeq(TreeNodes(o), IdCarrying) |->
     SelectSeq(TreeNodes(o), IdCarrying)[i].id]

\* C5: no two nodes of a returned tree that carry a NodeId have the same id.
C5_UniqueIds ==
  (Done(1) /\ HasIds(gen[1]))
    => \A i, j \in DOMAIN IdsOf(out[1]) :
         i # j => IdsOf(out[1])[i] # IdsOf(out[1])[j]
\* a tree of two items and at least eight nodes with an id
C5_Witness ==
  /\ Done(1) /\ HasIds(gen[1])
  /\ HasTree(out[1]) /\ Len(ItemsOf(out[1])) = 2
  /\ Len(IdsOf(out[1])) >= 8

\* C6: interleaved with other calls, a call returns the tree, ids and
\* diagnostics it returns when run alone, and its allocator starts from the
\* initial id.
C6_Isolated ==
  \A i \in Invocations :
    /\ Done(i) => out[i] = alone[i]
    /\ (pc[i] = "items" /\ pos[i] = 1) => state[state_of(i)] = next_id(0).id
\* call 1 has returned a tree of two items while call 2 is between two items
\* and has allocated ids
C6_Witness ==
  /\ Done(1) /\ out[1] = alone[1]
  /\ HasTree(out[1]) /\ Len(ItemsOf(out[1])) = 2
  /\ pc[2] = "items" /\ pos[2] > 1 /\ state[2] > next_id(0).id

\* C7: a statement without its `;` in a function that a well-formed item
\* follows: parse returns a tree that contains the following item, and
\* exactly one diagnostic, at the place of the missing `;`.
C7_Recovers ==
  (Done(1) /\ Len(src[1].frags) = 2 /\ src[1].frags[1] = MissingSemi
     /\ src[1].frags[2] \in WellFormed)
    => /\ HasTree(out[1])
       /\ \E k \in DOMAIN ItemsOf(out[1]) :
            ItemsOf(out[1])[k].ext[1] = src[1].t[Len(Frags[MissingSemi]) + 1].s
       /\ Len(out[1].diags) = 1
       /\ out[1].diags[1].span = TokSpan(src[1].t, Len(Frags[MissingSemi]))

\* C8: in every generation, a non-empty stream whose first token begins no
\* item gives no tree and at least one diagnostic: neither a File without
\* items and without diagnostics, nor no tree without diagnostics.
C8_NoSilentSuccess ==
  (Done(1) /\ src[1].t # <<>> /\ Peek(src[1].t, 1) \notin {"Fn", "Struct"})
    => /\ ~HasTree(out[1])
       /\ out[1].diags # <<>>

\* C9: with the end-of-input check, a File is returned only when the items
\* consumed every token; with a token left there is no tree and there is a
\* diagnostic.
C9_EndOfInput ==
  (Done(1) /\ HasEnd(gen[1]))
    => /\ HasTree(out[1]) => pos[1] = Len(src[1].t) + 1
       /\ pos[1] <= Len(src[1].t) => (~HasTree(out[1]) /\ out[1].diags # <<>>)
\* items were parsed, tokens are left: no tree, one diagnostic
C9_Witness ==
  /\ Done(1) /\ HasEnd(gen[1])
  /\ items[1] # <<>> /\ pos[1] <= Len(src[1].t)
  /\ ~HasTree(out[1]) /\ Len(out[1].diags) = 1

\* C10: every node's span is the range of source text the grammar consumed
\* to build the node.
C10_SpanRoundTrip ==
  Done(1) =>
    \A i \in DOMAIN TreeNodes(out[1]) :
      TreeNodes(out[1])[i].span # NoSpan
        => TreeNodes(out[1])[i].span = TreeNodes(out[1])[i].ext

\* BinOp { span: lhs.span.start..rhs.span.end }, the Expr's span the same.
BinSpanOk(n) ==
  n.tag = "BinOp" =>
    /\ n.ospan = <<n.kids[1].span[1], n.kids[2].span[2]>>
    /\ n.span = n.ospan
    /\ n.span[2] >= n.span[1]

\* C11: every BinOp of a binary fold spans lhs.span.start..rhs.span.end, on
\* the BinOp record and on the enclosing Expr, and its end is not before its
\* start.
C11_BinSpan ==
  Done(1) =>
    \A i \in DOMAIN TreeNodes(out[1]) : BinSpanOk(TreeNodes(out[1])[i])

(***************************************************************************)
(* Statements, items and literals of a result, and their reference trees.  *)
(***************************************************************************)
\* The first statement of the one function of a file.
BodyStmt(o) == ItemsOf(o)[1].kids[3].kids[1]

RefNode(tag, name, kids) ==
  [tag |-> tag, op |-> "", name |-> name, num |-> <<>>, kids |-> kids]

RECURSIVE RefIf(_, _, _)
\* The k-th if of a chain of n else-ifs: its else part is the next if as an
\* ElseIf, after the last if the final Else if there is one, or absent.
RefIf(k, n, final) ==
  RefNode("IfStmt", <<>>,
          <<Leaf("Name", <<Letters[k]>>, <<>>),
            RefNode("body", <<>>, <<>>),
            RefNode("else_part", <<>>,
                    IF k <= n THEN <<RefNode("ElseIf", <<>>, <<RefIf(k + 1, n, final)>>)>>
                    ELSE IF final THEN <<RefNode("Else", <<>>, <<>>)>>
                    ELSE <<>>)>>)

\* C12: an if with n else-if clauses and a final else parses to n nested
\* ElseIf parts ending in one Else, each else attached to the nearest if
\* before it; without else the else part is absent (in the generations that
\* have an if statement).
C12_ElseChain ==
  (Done(1) /\ src[1].shape.fam = "if" /\ gen[1] # GenUb)
    => /\ HasTree(out[1])
       /\ Len(ItemsOf(out[1])) = 1
       /\ Len(ItemsOf(out[1])[1].kids[3].kids) = 1
       /\ Shape(BodyStmt(out[1])) = RefIf(1, src[1].shape.n, src[1].shape.p)
\* if a { } else if b { } else { } has been parsed: ElseIf, then Else
C12_Witness ==
  /\ Done(1) /\ gen[1] = GenParser
  /\ src[1].shape.fam = "if" /\ src[1].shape.n = 1 /\ src[1].shape.p
  /\ HasTree(out[1])
  /\ BodyStmt(out[1]).kids[3].kids[1].tag = "ElseIf"
  /\ BodyStmt(out[1]).kids[3].kids[1].kids[1].kids[3].kids[1].tag = "Else"

\* C13: with `let`, the type and the initializer of a variable declaration
\* are optional independently: each of the four forms parses to a VarDecl
\* whose ty is present exactly when `: T` is written and whose rhs is present
\* exactly when `= e` is written.
C13_LetOptional ==
  (Done(1) /\ src[1].shape.fam = "let" /\ gen[1] = GenSalsa)
    => /\ HasTree(out[1])
       /\ Len(ItemsOf(out[1])) = 1
       /\ Len(ItemsOf(out[1])[1].kids[3].kids) = 1
       /\ BodyStmt(out[1]).tag = "VarDecl"
       /\ BodyStmt(out[1]).name = <<"x">>
       /\ Len(BodyStmt(out[1]).kids[1].kids) = (IF src[1].shape.p THEN 1 ELSE 0)
       /\ Len(BodyStmt(out[1]).kids[2].kids) = (IF src[1].shape.q THEN 1 ELSE 0)
       /\ src[1].shape.p => BodyStmt(out[1]).kids[1].kids[1].name = U64Name
       /\ src[1].shape.q => BodyStmt(out[1]).kids[2].kids[1].num = <<"1">>
\* `let x ;` has been parsed to a VarDecl without type and without rhs
C13_Witness ==
  /\ Done(1) /\ gen[1] = GenSalsa
  /\ src[1].shape.fam = "let" /\ ~src[1].shape.p /\ ~src[1].shape.q
  /\ HasTree(out[1])
  /\ BodyStmt(out[1]).tag = "VarDecl"
  /\ BodyStmt(out[1]).kids[1].kids = <<>> /\ BodyStmt(out[1]).kids[2].kids = <<>>

\* The local functions of a body: the statements that are Stmt::Item of an
\* Item::FnDecl, by name and in order.
LocalFns(body) ==
  [i \in DOMAIN SelectSeq(body, LAMBDA st : st.tag = "Item" /\ st.kids[1].tag = "FnDecl")
     |-> SelectSeq(body, LAMBDA st : st.tag = "Item" /\ st.kids[1].tag = "FnDecl")[i]
           .kids[1].name]

\* C14: in the generation with nested functions, a body with local function
\* declarations written as in the tests (no `;` after a local function)
\* parses, each local function a Stmt::Item holding an Item::FnDecl, in
\* source order.
C14_NestedFns ==
  (Done(1) /\ src[1].shape.fam = "nested" /\ ~src[1].shape.q /\ gen[1] = GenUb)
    => /\ HasTree(out[1])
       /\ Len(ItemsOf(out[1])) = 1
       /\ Len(ItemsOf(out[1])[1].kids[3].kids) = 2
       /\ LocalFns(ItemsOf(out[1])[1].kids[3].kids)
            = (IF src[1].shape.p THEN <<<<"g">>>> ELSE <<<<"g">>, <<"h">>>>)

\* C15: a struct declaration with n comma-separated `name : type` fields
\* parses to a StructDecl with exactly these n fields, in the order written.
C15_StructFields ==
  (Done(1) /\ src[1].shape.fam = "struct")
    => /\ HasTree(out[1])
       /\ Len(ItemsOf(out[1])) = 1
       /\ ItemsOf(out[1])[1].tag = "StructDecl"
       /\ ItemsOf(out[1])[1].name = <<"X">>
       /\ [i \in DOMAIN ItemsOf(out[1])[1].kids |-> ItemsOf(out[1])[1].kids[i].name]
            = [i \in 1..src[1].shape.n |-> <<Letters[i]>>]
\* struct X { a : u64 , b : u64 } has been parsed: the fields a, then b
C15_Witness ==
  /\ Done(1) /\ src[1].shape.fam = "struct" /\ src[1].shape.n = 2
  /\ HasTree(out[1])
  /\ Len(ItemsOf(out[1])[1].kids) = 2
  /\ ItemsOf(out[1])[1].kids[1].name = <<"a">>
  /\ ItemsOf(out[1])[1].kids[2].name = <<"b">>

\* The digits of a number without its leading zeros.
Canonical(text) ==
  SubSeq(text,
         CHOOSE k \in 1..Len(text) :
           /\ \A j \in 1..(k - 1) : text[j] = "0"
           /\ (text[k] # "0" \/ k = Len(text)),
         Len(text))

\* C16: where the grammar converts the integer token (the two older
\* generations), digits of a value above 2^64 - 1 make the call panic: it
\* never comes to its end and returns neither tree nor diagnostics; digits
\* of a value that fits give Literal::Integer of that value.
C16_IntegerRange ==
  (pc[1] # "idle" /\ src[1].shape.fam = "int" /\ gen[1] # GenSalsa)
    => /\ src[1].shape.p =>
            /\ pc[1] # "panicked"
            /\ Done(1) =>
                 /\ HasTree(out[1])
                 /\ Len(ItemsOf(out[1])) = 1
                 /\ BodyExpr(out[1]).tag = "Integer"
                 /\ BodyExpr(out[1]).num = Canonical(src[1].shape.text)
       /\ ~src[1].shape.p =>
            /\ pc[1] \in {"items", "panicked"}
            /\ out[1] = NoOut
\* twenty digits of a value above 2^64 - 1 have made the call panic
C16_Witness ==
  /\ pc[1] = "panicked" /\ gen[1] = GenParser
  /\ src[1].shape.fam = "int" /\ ~src[1].shape.p
  /\ Len(src[1].shape.text) = Len(U64MaxDigits)
  /\ out[1] = NoOut

\* C17: a string token of n >= 2 characters (quotes included) gives
\* Literal::String of the characters at indices [1, n-2), one removed
\* in front and two at the back, and the literal's span is the token's.
C17_StringTrim ==
  (pc[1] # "idle" /\ src[1].shape.fam = "str")
    => /\ pc[1] # "panicked"
       /\ Done(1) =>
            /\ HasTree(out[1])
            /\ Len(ItemsOf(out[1])) = 1
            /\ BodyExpr(out[1]).tag = "String"
            /\ BodyExpr(out[1]).name
                 = [i \in 1..(Len(src[1].shape.text) - 3) |-> src[1].shape.text[i + 1]]
            /\ BodyExpr(out[1]).ospan = TokSpan(src[1].t, Len(FnHead) + 1)

\* The nodes whose id the folds and maps take after their parts are built.
TakesIdLast(n) == n.kind = "Expr" \/ n.tag = "FnDecl"

\* C18: with ids, the id of an Expr is above the id of every Expr nested in
\* it, and the id of a FnDecl is above the ids of its parameters and of the
\* expressions of its body.
C18_PostOrderIds ==
  (Done(1) /\ HasIds(gen[1]))
    => \A i \in DOMAIN TreeNodes(out[1]) :
         TakesIdLast(TreeNodes(out[1])[i])
           => \A j \in DOMAIN NodesIn(TreeNodes(out[1])[i].kids, 1) :
                IdCarrying(NodesIn(TreeNodes(out[1])[i].kids, 1)[j])
                  => NodesIn(TreeNodes(out[1])[i].kids, 1)[j].id
                       < TreeNodes(out[1])[i].id
\* a function with a parameter and a call with an argument in its body has
\* been parsed, with ids
C18_Witness ==
  /\ Done(1) /\ HasIds(gen[1])
  /\ HasTree(out[1]) /\ Len(ItemsOf(out[1])) >= 1
  /\ ItemsOf(out[1])[1].tag = "FnDecl"
  /\ ItemsOf(out[1])[1].kids[1].kids # <<>>
  /\ BodyExpr(out[1]).tag = "Call" /\ Len(BodyExpr(out[1]).kids) = 2
  /\ BodyExpr(out[1]).kids[2].id < BodyExpr(out[1]).id
  /\ BodyExpr(out[1]).id < ItemsOf(out[1])[1].id

\* C19: while a call parses, its id counter never goes down, also not when an
\* alternative fails and the stream is rewound: the ids of a discarded
\* alternative are not handed out again, and every id of the returned tree is
\* below the final counter.
C19_CounterKept ==
  /\ [][\A i \in Invocations :
          (pc[i] = "items" /\ pc'[i] # "idle")
            => state'[state_of(i)] >= state[state_of(i)]]_vars
  /\ [](\A i \in Invocations :
          (Done(i) /\ HasIds(gen[i]))
            => /\ Len(IdsOf(out[i])) <= state[state_of(i)]
               /\ \A k \in DOMAIN IdsOf(out[i]) :
                    /\ IdsOf(out[i])[k] >= next_id(0).id
                    /\ IdsOf(out[i])[k] < state[state_of(i)])
\* a returned tree whose ids are not the first ones: some were handed to
\* nodes of a discarded alternative
C19_Witness ==
  /\ Done(1) /\ HasIds(gen[1])
  /\ HasTree(out[1]) /\ Len(ItemsOf(out[1])) = 2
  /\ Len(IdsOf(out[1])) < state[state_of(1)]
  /\ \E k \in DOMAIN IdsOf(out[1]) : IdsOf(out[1])[k] >= Len(IdsOf(out[1]))

\* C20: parse terminates on every token stream: each item the repetition
\* accepts moves the cursor forward, and a call that has started returns its
\* result.
C20_Terminates ==
  /\ [][(pc[1] = "items" /\ pc'[1] = "items") => pos'[1] > pos[1]]_vars
  /\ (pc[1] = "items") ~> Done(1)

====
